---- MODULE Spec2Model ----
(***************************************************************************)
(* A model of the validator state machine of zerok_lib/src/state.rs:       *)
(* ValidatorState (eight fields), validate_block_check, validate_and_apply *)
(* and the data they consume (blocks of transaction notes, nullifier       *)
(* non-membership proofs, verifier key sets, the record Merkle tree).      *)
(*                                                                         *)
(* Digests are modelled as collision-free: a commitment is the tagged      *)
(* value it commits to, so two commitments are equal iff their openings    *)
(* are equal.                                                              *)
(***************************************************************************)
EXTENDS Integers, Sequences, FiniteSets, TLC

VARIABLES state, call, ghost, proposal, key_set
\* state : the ValidatorState the calls act on
\* call  : the call that has just returned (its inputs, the state before it
\*         and its result), or the idle record between calls
\* ghost : history of the run: number of successful applies, number of output
\*         commitments applied, input nullifiers of the applied blocks,
\*         record roots of the states since genesis
\* proposal : the elaborated block under assembly
\* key_set : the KeySet built by KeySet::new, if one has been built

vars == <<state, call, ghost, proposal, key_set>>

MERKLE_HEIGHT == 20
RECORD_ROOT_HISTORY_SIZE == 10

\* Bounds of the model.
MaxApplies == 3     \* successful applies explored with the full input family
MaxChain == 12      \* successful applies explored with the reduced family
MaxChecked == 2     \* applies before a block of the full family is only checked
MaxNullifier == 3   \* nullifiers of the transactions assembled into a block
MaxKeySize == 3     \* inputs, and outputs, of the keys a KeySet is built from
MaxKeys == 3        \* keys handed to KeySet::new
MaxLeaves == 2      \* leaves of the record tree handed to ValidatorState::new
MaxNow == 3         \* times handed to validate_and_apply

----------------------------------------------------------------------------
\* Option and Result

None == [some |-> FALSE]
Some(x) == [some |-> TRUE, val |-> x]

Ok(v) == [ok |-> TRUE, val |-> v]
Err(e) == [ok |-> FALSE, err |-> e]

Min(a, b) == IF a < b THEN a ELSE b

\* Iterator::collect::<Result<Vec<_>, _>>(): the values, or the first error.
RECURSIVE CollectFrom(_, _)
CollectFrom(rs, i) ==
  IF i > Len(rs) THEN Ok(<<>>)
  ELSE IF ~rs[i].ok THEN rs[i]
  ELSE LET rest == CollectFrom(rs, i + 1) IN
       IF rest.ok THEN Ok(<<rs[i].val>> \o rest.val) ELSE rest

CollectResults(rs) == CollectFrom(rs, 1)

----------------------------------------------------------------------------
\* ValidationError

NullifierAlreadyExists(n) == [kind |-> "NullifierAlreadyExists", nullifier |-> n]
BadNullifierProof == [kind |-> "BadNullifierProof"]
MissingNullifierProof == [kind |-> "MissingNullifierProof"]
ConflictingNullifiers == [kind |-> "ConflictingNullifiers"]
Failed == [kind |-> "Failed"]
BadMerkleLength == [kind |-> "BadMerkleLength"]
BadMerkleLeaf == [kind |-> "BadMerkleLeaf"]
BadMerkleRoot == [kind |-> "BadMerkleRoot"]
BadMerklePath == [kind |-> "BadMerklePath"]
CryptoError(e) == [kind |-> "CryptoError", err |-> e]
UnsupportedTransferSize(i, o) ==
  [kind |-> "UnsupportedTransferSize", num_inputs |-> i, num_outputs |-> o]
UnsupportedFreezeSize(i) == [kind |-> "UnsupportedFreezeSize", num_inputs |-> i]

----------------------------------------------------------------------------
\* Sparse nullifier set (crate::set_merkle_tree).  A set is known to the
\* validator by its root only; a proof is generated by whoever holds the set.

SetHash(S) == [set_hash |-> S]

\* The proof a holder of set S generates for element n.
Prove(S, n) == [elem |-> n, root |-> SetHash(S), present |-> n \in S]

\* SetMerkleProof::check(elem, root): Ok(is elem present) when the proof
\* hashes to root along elem's path, Err otherwise.
ProofCheck(pf, n, root) ==
  IF pf.root = root /\ pf.elem = n THEN Ok(pf.present) ELSE Err(pf.root)

\* set_merkle_lw_multi_insert(inserts, root): every proof is checked against
\* root (error if one is inconsistent with it), then all elements are added.
set_merkle_lw_multi_insert(inserts, root) ==
  IF \E i \in 1..Len(inserts) : ~ProofCheck(inserts[i].pf, inserts[i].n, root).ok
  THEN Err(root)
  ELSE Ok(SetHash(root.set_hash \cup {inserts[i].n : i \in 1..Len(inserts)}))

----------------------------------------------------------------------------
\* Record Merkle tree (jf_aap::MerkleTree), by its leaves.

NodeValue(leaves) == [node |-> leaves]

MerkleTreeNew(height) == [height |-> height, leaves |-> <<>>]

TreeCommitment(t) ==
  [height |-> t.height, num_leaves |-> Len(t.leaves), root_value |-> NodeValue(t.leaves)]

\* The frontier: the last leaf and the path that authenticates it.
TreeFrontier(t) ==
  IF t.leaves = <<>> THEN [kind |-> "Empty", height |-> t.height]
  ELSE [kind |-> "Proof", leaf |-> t.leaves[Len(t.leaves)],
        path |-> SubSeq(t.leaves, 1, Len(t.leaves) - 1)]

\* MerkleTree::restore_from_frontier: None when the frontier does not
\* authenticate against the commitment.
restore_from_frontier(comm, frontier) ==
  IF frontier.kind = "Empty"
  THEN IF comm.num_leaves = 0 /\ comm.height = frontier.height
          /\ comm.root_value = NodeValue(<<>>)
       THEN Some(MerkleTreeNew(frontier.height)) ELSE None
  ELSE LET leaves == frontier.path \o <<frontier.leaf>> IN
       IF comm.num_leaves = Len(leaves) /\ comm.root_value = NodeValue(leaves)
       THEN Some([height |-> comm.height, leaves |-> leaves]) ELSE None

TreePush(t, leaf) == [t EXCEPT !.leaves = Append(t.leaves, leaf)]

----------------------------------------------------------------------------
\* Transaction notes (jf_aap::TransactionNote) and verifier keys.

MintNote(n, outs, root, ok) ==
  [kind |-> "Mint", nullifiers |-> <<n>>, outputs |-> outs,
   merkle_root |-> root, proof_ok |-> ok]
TransferNote(ns, outs, root, ok) ==
  [kind |-> "Transfer", nullifiers |-> ns, outputs |-> outs,
   merkle_root |-> root, proof_ok |-> ok]
FreezeNote(ns, outs, root, ok) ==
  [kind |-> "Freeze", nullifiers |-> ns, outputs |-> outs,
   merkle_root |-> root, proof_ok |-> ok]

VerifyingKey(kind, i, o) == [kind |-> kind, num_input |-> i, num_output |-> o]

\* txn_batch_verify: every note's embedded proof verifies.
txn_batch_verify(notes, roots, now, keys) ==
  IF \A i \in 1..Len(notes) : notes[i].proof_ok
  THEN Ok(TRUE) ELSE Err("FailedSnarkVerification")

\* KeyOrder::sort_key
sort_key(order, num_inputs, num_outputs) ==
  IF order = "OrderByInputs" THEN <<num_inputs, num_outputs>>
  ELSE <<num_outputs, num_inputs>>

\* A KeySet holding the keys K (one per size): the BTreeMap sort_key -> key.
KeySetOf(order, K) ==
  [order |-> order,
   keys |-> [sk \in {sort_key(order, k.num_input, k.num_output) : k \in K} |->
               CHOOSE k \in K : sort_key(order, k.num_input, k.num_output) = sk]]

\* key_set::Error
NoKeys == [kind |-> "NoKeys"]
DuplicateKeys(i, o) == [kind |-> "DuplicateKeys", num_inputs |-> i, num_outputs |-> o]

\* The loop of KeySet::new from key i on, map being the BTreeMap so far, and
\* the emptiness test after it.
RECURSIVE KeySetNewFrom(_, _, _, _)
KeySetNewFrom(order, ks, i, map) ==
  IF i > Len(ks)
  THEN IF DOMAIN map = {} THEN Err(NoKeys) ELSE Ok([order |-> order, keys |-> map])
  ELSE LET sk == sort_key(order, ks[i].num_input, ks[i].num_output) IN
       IF sk \in DOMAIN map
       THEN Err(DuplicateKeys(ks[i].num_input, ks[i].num_output))
       ELSE KeySetNewFrom(order, ks, i + 1,
                          [x \in DOMAIN map \cup {sk} |->
                             IF x = sk THEN ks[i] ELSE map[x]])

\* Variant: an empty map is not rejected.
KeySetNew_AllowEmpty(order, ks) ==
  LET r == KeySetNewFrom(order, ks, 1, <<>>) IN
  IF ~r.ok /\ r.err = NoKeys THEN Ok([order |-> order, keys |-> <<>>]) ELSE r

\* KeySet::new
KeySetNew(order, ks) == KeySetNewFrom(order, ks, 1, <<>>)

\* Ord on the SortKey pairs: lexicographic.
SortKeyLeq(a, b) == a[1] < b[1] \/ (a[1] = b[1] /\ a[2] <= b[2])

\* A (num_inputs, num_outputs) size, and the panic of unwrap on None.
Size(i, o) == [num_inputs |-> i, num_outputs |-> o]
Panic == [panic |-> "unwrap on None"]

\* KeySet::max_size: the size of the last key of the map.
max_size(ks) ==
  IF DOMAIN ks.keys = {} THEN Panic
  ELSE LET last == CHOOSE sk \in DOMAIN ks.keys :
                     \A x \in DOMAIN ks.keys : SortKeyLeq(x, sk)
       IN Size(ks.keys[last].num_input, ks.keys[last].num_output)

\* The first entry of the map in the given range of sort keys, if any.
FirstInRange(ks, range) ==
  IF range = {} THEN None
  ELSE Some(ks.keys[CHOOSE sk \in range : \A x \in range : SortKeyLeq(sk, x)])

\* Variant: the lower bound of the range is excluded.
best_fit_key_Excluded(ks, num_inputs, num_outputs) ==
  LET from == sort_key(ks.order, num_inputs, num_outputs)
      found == FirstInRange(ks, {sk \in DOMAIN ks.keys :
                                    SortKeyLeq(from, sk) /\ sk # from})
  IN IF found.some
     THEN Ok([num_inputs |-> found.val.num_input,
              num_outputs |-> found.val.num_output, key |-> found.val])
     ELSE Err(max_size(ks))

\* KeySet::best_fit_key: the first entry at or after the requested sort
\* key, or else the maximal size.
best_fit_key(ks, num_inputs, num_outputs) ==
  LET from == sort_key(ks.order, num_inputs, num_outputs)
      found == FirstInRange(ks, {sk \in DOMAIN ks.keys : SortKeyLeq(from, sk)})
  IN IF found.some
     THEN Ok([num_inputs |-> found.val.num_input,
              num_outputs |-> found.val.num_output, key |-> found.val])
     ELSE Err(max_size(ks))

\* Variant: the best-fit key is taken.
key_for_size_BestFit(ks, num_inputs, num_outputs) ==
  LET r == best_fit_key(ks, num_inputs, num_outputs) IN
  IF r.ok THEN Some(r.val.key) ELSE None

\* KeySet::key_for_size
key_for_size(ks, num_inputs, num_outputs) ==
  LET sk == sort_key(ks.order, num_inputs, num_outputs) IN
  IF sk \in DOMAIN ks.keys THEN Some(ks.keys[sk]) ELSE None

\* Option::ok_or
ok_or(opt, e) == IF opt.some THEN Ok(opt.val) ELSE Err(e)

----------------------------------------------------------------------------
\* Commitments

\* Variant: the commitment is to the transactions as a set.
BlockCommit_Unordered(txns) ==
  [comm |-> "Block Comm", txns |-> {txns[i] : i \in 1..Len(txns)}]

\* Committable for Block: the array of the transactions' commitments.
BlockCommit(txns) == [comm |-> "Block Comm", txns |-> txns]

\* ValidatorState::commit: the commitment of the LedgerCommitmentOpening.
commit(s) ==
  [comm |-> "Ledger Comm",
   prev_commit_time |-> s.prev_commit_time,
   prev_state |-> s.prev_state,
   verif_crs |-> [comm |-> "VerifCRS Comm", of |-> s.verif_crs],
   record_merkle_commitment |-> [comm |-> "RMT Comm", of |-> s.record_merkle_commitment],
   record_merkle_frontier |-> [comm |-> "RMFrontier", of |-> s.record_merkle_frontier],
   past_record_merkle_roots |->
     [comm |-> "Hist Comm", len |-> Len(s.past_record_merkle_roots),
      roots |-> s.past_record_merkle_roots],
   nullifiers |-> s.nullifiers_root,
   prev_block |-> s.prev_block]

\* ElaboratedBlock::default
ElaboratedBlockDefault == [block |-> <<>>, proofs |-> <<>>]

\* Variant: the root of the given tree is entered into the history.
ValidatorStateNew_RootInHistory(verif_crs, tree) ==
  [prev_commit_time |-> 0,
   prev_state |-> None,
   verif_crs |-> verif_crs,
   record_merkle_commitment |-> TreeCommitment(tree),
   record_merkle_frontier |-> TreeFrontier(tree),
   past_record_merkle_roots |-> <<TreeCommitment(tree).root_value>>,
   nullifiers_root |-> SetHash({}),
   prev_block |-> BlockCommit(<<>>)]

\* ValidatorState::new
ValidatorStateNew(verif_crs, tree) ==
  [prev_commit_time |-> 0,
   prev_state |-> None,
   verif_crs |-> verif_crs,
   record_merkle_commitment |-> TreeCommitment(tree),
   record_merkle_frontier |-> TreeFrontier(tree),
   past_record_merkle_roots |-> <<>>,
   nullifiers_root |-> SetHash({}),
   prev_block |-> BlockCommit(<<>>)]

----------------------------------------------------------------------------
\* ValidatorState::validate_block_check

\* Iterator::zip: as long as the shorter of the two.
ZipProofs(pfs, ns) ==
  [j \in 1..Min(Len(pfs), Len(ns)) |-> [pf |-> pfs[j], n |-> ns[j]]]

\* The (proof, nullifier) pairs the check walks: the proof vectors zipped
\* with the transactions, each proof vector zipped with its transaction's
\* nullifiers, flattened.
RECURSIVE NullifierPairsFrom(_, _, _)
NullifierPairsFrom(null_pfs, txns, i) ==
  IF i > Min(Len(null_pfs), Len(txns)) THEN <<>>
  ELSE ZipProofs(null_pfs[i], txns[i].nullifiers)
         \o NullifierPairsFrom(null_pfs, txns, i + 1)

NullifierPairs(null_pfs, txns) == NullifierPairsFrom(null_pfs, txns, 1)

\* The loop over the pairs, from pair i on, with the set nulls seen so far.
RECURSIVE CheckNullifiersFrom(_, _, _, _)
CheckNullifiersFrom(pairs, i, nulls, root) ==
  IF i > Len(pairs) THEN Ok(nulls)
  ELSE LET n == pairs[i].n
           seen == n \in nulls
           chk == ProofCheck(pairs[i].pf, n, root)
       IN IF seen THEN Err(NullifierAlreadyExists(n))
          ELSE IF ~chk.ok THEN Err(BadNullifierProof)
          ELSE IF chk.val THEN Err(NullifierAlreadyExists(n))
          ELSE CheckNullifiersFrom(pairs, i + 1, nulls \cup {n}, root)

\* Variant: a proof that fails its check is taken as a non-membership proof.
RECURSIVE CheckIgnoringBadProofFrom(_, _, _, _)
CheckIgnoringBadProofFrom(pairs, i, nulls, root) ==
  IF i > Len(pairs) THEN Ok(nulls)
  ELSE LET n == pairs[i].n
           chk == ProofCheck(pairs[i].pf, n, root)
       IN IF n \in nulls THEN Err(NullifierAlreadyExists(n))
          ELSE IF chk.ok /\ chk.val THEN Err(NullifierAlreadyExists(n))
          ELSE CheckIgnoringBadProofFrom(pairs, i + 1, nulls \cup {n}, root)

CheckNullifiers_IgnoreBadProof(pairs, root) ==
  CheckIgnoringBadProofFrom(pairs, 1, {}, root)

\* Variant: the nullifiers seen earlier in the block are not remembered.
RECURSIVE CheckWithoutSeenFrom(_, _, _)
CheckWithoutSeenFrom(pairs, i, root) ==
  IF i > Len(pairs) THEN Ok({})
  ELSE LET n == pairs[i].n
           chk == ProofCheck(pairs[i].pf, n, root)
       IN IF ~chk.ok THEN Err(BadNullifierProof)
          ELSE IF chk.val THEN Err(NullifierAlreadyExists(n))
          ELSE CheckWithoutSeenFrom(pairs, i + 1, root)

CheckNullifiers_NoSeenSet(pairs, root) == CheckWithoutSeenFrom(pairs, 1, root)

CheckNullifiers(pairs, root) == CheckNullifiersFrom(pairs, 1, {}, root)

\* The verifying key of one transaction.
SelectKey(verif_crs, txn) ==
  LET num_inputs == Len(txn.nullifiers)
      num_outputs == Len(txn.outputs)
  IN CASE txn.kind = "Mint" -> Ok(verif_crs.mint)
       [] txn.kind = "Transfer" ->
            ok_or(key_for_size(verif_crs.xfr, num_inputs, num_outputs),
                  UnsupportedTransferSize(num_inputs, num_outputs))
       [] txn.kind = "Freeze" ->
            ok_or(key_for_size(verif_crs.freeze, num_inputs, num_outputs),
                  UnsupportedFreezeSize(num_inputs))

\* Variant: only the current root is eligible, not the past ones.
MerkleRootFor_CurrentOnly(s, note) ==
  IF s.record_merkle_commitment.root_value = note.merkle_root
  THEN Ok(note.merkle_root)
  ELSE Err(BadMerkleRoot)

\* Variant: only the past roots are eligible, not the current one.
MerkleRootFor_HistoryOnly(s, note) ==
  IF \E k \in 1..Len(s.past_record_merkle_roots) :
       s.past_record_merkle_roots[k] = note.merkle_root
  THEN Ok(note.merkle_root)
  ELSE Err(BadMerkleRoot)

\* The record Merkle root one note is verified against.
MerkleRootFor(s, note) ==
  IF s.record_merkle_commitment.root_value = note.merkle_root
     \/ \E k \in 1..Len(s.past_record_merkle_roots) :
          s.past_record_merkle_roots[k] = note.merkle_root
  THEN Ok(note.merkle_root)
  ELSE Err(BadMerkleRoot)

\* Variant: the Merkle roots are examined before the verifying keys.
validate_block_check_RootsFirst(s, now, txns, null_pfs) ==
  LET nl == CheckNullifiers(NullifierPairs(null_pfs, txns), s.nullifiers_root)
      verif_keys == CollectResults([i \in 1..Len(txns) |-> SelectKey(s.verif_crs, txns[i])])
      roots == CollectResults([i \in 1..Len(txns) |-> MerkleRootFor(s, txns[i])])
  IN IF ~nl.ok THEN nl
     ELSE IF ~roots.ok THEN roots
     ELSE IF ~verif_keys.ok THEN verif_keys
     ELSE IF txns # <<>>
          THEN LET bv == txn_batch_verify(txns, roots.val, now, verif_keys.val) IN
               IF ~bv.ok THEN Err(CryptoError(Ok(bv.err)))
               ELSE Ok([txns |-> txns, null_pfs |-> null_pfs])
          ELSE Ok([txns |-> txns, null_pfs |-> null_pfs])

\* Variant: the proof vectors returned are those paired with a transaction.
validate_block_check_ReturnsPaired(s, now, txns, null_pfs) ==
  LET nl == CheckNullifiers(NullifierPairs(null_pfs, txns), s.nullifiers_root)
      verif_keys == CollectResults([i \in 1..Len(txns) |-> SelectKey(s.verif_crs, txns[i])])
      roots == CollectResults([i \in 1..Len(txns) |-> MerkleRootFor(s, txns[i])])
      paired == SubSeq(null_pfs, 1, Min(Len(null_pfs), Len(txns)))
  IN IF ~nl.ok THEN nl
     ELSE IF ~verif_keys.ok THEN verif_keys
     ELSE IF txns # <<>>
          THEN IF ~roots.ok THEN roots
               ELSE LET bv == txn_batch_verify(txns, roots.val, now, verif_keys.val) IN
                    IF ~bv.ok THEN Err(CryptoError(Ok(bv.err)))
                    ELSE Ok([txns |-> txns, null_pfs |-> paired])
          ELSE Ok([txns |-> txns, null_pfs |-> paired])

validate_block_check(s, now, txns, null_pfs) ==
  LET nl == CheckNullifiers(NullifierPairs(null_pfs, txns), s.nullifiers_root)
      verif_keys == CollectResults([i \in 1..Len(txns) |-> SelectKey(s.verif_crs, txns[i])])
      roots == CollectResults([i \in 1..Len(txns) |-> MerkleRootFor(s, txns[i])])
  IN IF ~nl.ok THEN nl
     ELSE IF ~verif_keys.ok THEN verif_keys
     ELSE IF txns # <<>>
          THEN IF ~roots.ok THEN roots
               ELSE LET bv == txn_batch_verify(txns, roots.val, now, verif_keys.val) IN
                    IF ~bv.ok THEN Err(CryptoError(Ok(bv.err)))
                    ELSE Ok([txns |-> txns, null_pfs |-> null_pfs])
          ELSE Ok([txns |-> txns, null_pfs |-> null_pfs])

----------------------------------------------------------------------------
\* ValidatorState::validate_and_apply

\* Variant: the commit time is counted up, whatever the time given.
ApplyHeader_CountsUp(s, now, txns) ==
  [s EXCEPT !.prev_commit_time = s.prev_commit_time + 1,
            !.prev_block = BlockCommit(txns)]

\* Variant: the transfer keys are replaced along with the first assignments.
ApplyHeader_ReplacesKeys(s, now, txns) ==
  [s EXCEPT !.prev_commit_time = now, !.prev_block = BlockCommit(txns),
            !.verif_crs = [mint |-> s.verif_crs.mint, xfr |-> s.verif_crs.freeze,
                           freeze |-> s.verif_crs.freeze]]

\* The first two assignments to self.
ApplyHeader(s, now, txns) ==
  [s EXCEPT !.prev_commit_time = now, !.prev_block = BlockCommit(txns)]

\* The (nullifier, proof) pairs handed to the multi-insert.
RECURSIVE CollectNullifiersFrom(_, _, _)
CollectNullifiersFrom(txns, null_pfs, i) ==
  IF i > Min(Len(txns), Len(null_pfs)) THEN <<>>
  ELSE [j \in 1..Min(Len(txns[i].nullifiers), Len(null_pfs[i])) |->
          [n |-> txns[i].nullifiers[j], pf |-> null_pfs[i][j]]]
         \o CollectNullifiersFrom(txns, null_pfs, i + 1)

CollectNullifiers(txns, null_pfs) == CollectNullifiersFrom(txns, null_pfs, 1)

\* RecordCommitment::to_field_element
to_field_element(c) == [fe |-> c]

\* flat_map over the transactions' output commitments, in block order.
RECURSIVE OutputCommitmentsFrom(_, _)
OutputCommitmentsFrom(txns, i) ==
  IF i > Len(txns) THEN <<>>
  ELSE txns[i].outputs \o OutputCommitmentsFrom(txns, i + 1)

OutputCommitments(txns) == OutputCommitmentsFrom(txns, 1)

\* The loop pushing the output commitments: the tree and the uids assigned.
RECURSIVE AppendFrom(_, _, _, _, _)
AppendFrom(tree, outs, i, uid, ret) ==
  IF i > Len(outs) THEN [tree |-> tree, ret |-> ret]
  ELSE AppendFrom(TreePush(tree, to_field_element(outs[i])), outs, i + 1,
                  uid + 1, Append(ret, uid))

\* Variant: the uids are counted from zero.
AppendOutputs_FromZero(tree, outs, num_leaves) == AppendFrom(tree, outs, 1, 0, <<>>)

AppendOutputs(tree, outs, num_leaves) == AppendFrom(tree, outs, 1, num_leaves, <<>>)

\* Variant: nothing is popped.
PushHistory_NoPop(hist, root) == <<root>> \o hist

\* Variant: the root is pushed at the back, the front popped at capacity.
PushHistory_AtBack(hist, root) ==
  LET kept == IF Len(hist) >= RECORD_ROOT_HISTORY_SIZE
              THEN SubSeq(hist, 2, Len(hist)) ELSE hist
  IN kept \o <<root>>

\* pop_back when at capacity, then push_front of the root.
PushHistory(hist, root) ==
  LET kept == IF Len(hist) >= RECORD_ROOT_HISTORY_SIZE
              THEN SubSeq(hist, 1, Len(hist) - 1) ELSE hist
  IN <<root>> \o kept

\* Variant: the commitment is taken after the first assignments.
PrevStateOf_AfterAssignments(before, mutated) == Some(commit(mutated))

\* Variant: prev_state is left as it was.
PrevStateOf_Kept(before, mutated) == before.prev_state

\* `let comm = self.commit()` ... `self.prev_state = Some(comm)`: the
\* commitment of the state as it was before the first assignment.
PrevStateOf(before, mutated) == Some(commit(before))

\* Variant: the record Merkle commitment is not updated.
FinishApply_KeepCommitment(s, tree, prev) ==
  [s EXCEPT !.past_record_merkle_roots =
              <<s.record_merkle_commitment.root_value>> \o s.past_record_merkle_roots,
            !.record_merkle_frontier = TreeFrontier(tree),
            !.prev_state = prev]

\* The last assignments: history, commitment, frontier, prev_state.
FinishApply(s, tree, prev) ==
  [s EXCEPT !.past_record_merkle_roots =
              PushHistory(s.past_record_merkle_roots, s.record_merkle_commitment.root_value),
            !.record_merkle_commitment = TreeCommitment(tree),
            !.record_merkle_frontier = TreeFrontier(tree),
            !.prev_state = prev]

\* validate_and_apply after the check has passed: the snapshot of the
\* commitment, then the assignments, with the two error returns among them.
ApplyValidated(s, now, txns, null_pfs) ==
  LET s1 == ApplyHeader(s, now, txns)
      ins == set_merkle_lw_multi_insert(CollectNullifiers(txns, null_pfs),
                                        s1.nullifiers_root)
  IN IF ~ins.ok THEN [state |-> s1, result |-> Err(BadNullifierProof)]
     ELSE
       LET s2 == [s1 EXCEPT !.nullifiers_root = ins.val]
           restored == restore_from_frontier(s2.record_merkle_commitment,
                                             s2.record_merkle_frontier)
       IN IF ~restored.some THEN [state |-> s2, result |-> Err(BadMerklePath)]
          ELSE
            LET app == AppendOutputs(restored.val, OutputCommitments(txns),
                                     s2.record_merkle_commitment.num_leaves)
            IN [state |-> FinishApply(s2, app.tree, PrevStateOf(s, s2)),
                result |-> Ok(app.ret)]

\* Variant: the first assignments are made before the check.
validate_and_apply_HeaderFirst(s, now, txns, null_pfs) ==
  LET chk == validate_block_check(s, now, txns, null_pfs) IN
  IF ~chk.ok THEN [state |-> ApplyHeader(s, now, txns), result |-> chk]
  ELSE ApplyValidated(s, now, chk.val.txns, null_pfs)

\* The state after the call and the value returned.
validate_and_apply(s, now, txns, null_pfs) ==
  LET chk == validate_block_check(s, now, txns, null_pfs) IN
  IF ~chk.ok THEN [state |-> s, result |-> chk]
  ELSE ApplyValidated(s, now, chk.val.txns, null_pfs)

----------------------------------------------------------------------------
\* The inputs the calls are given.

\* The verifier keys of the genesis state: transfers of sizes (1,1) and
\* (2,2), freezes of size (2,2).
GenesisCRS ==
  [mint |-> VerifyingKey("Mint", 1, 2),
   xfr |-> KeySetOf("OrderByInputs",
                    {VerifyingKey("Transfer", 1, 1), VerifyingKey("Transfer", 2, 2)}),
   freeze |-> KeySetOf("OrderByInputs", {VerifyingKey("Freeze", 2, 2)})]

Genesis == ValidatorStateNew(GenesisCRS, MerkleTreeNew(MERKLE_HEIGHT))

\* A root value no record tree of the model has.
UnknownRoot == NodeValue(<<to_field_element(0)>>)

\* The notes offered in state s: three valid ones (the third spends the
\* nullifiers of the first two), and one note for each way validation of a
\* note fails.
Notes(s) ==
  LET cur == s.record_merkle_commitment.root_value IN
  {MintNote(1, <<11, 12>>, cur, TRUE),
   TransferNote(<<2>>, <<21>>, cur, TRUE),
   TransferNote(<<1, 2>>, <<31, 32>>, cur, TRUE),
   TransferNote(<<2>>, <<41, 42>>, cur, TRUE),
   FreezeNote(<<2>>, <<51>>, cur, TRUE),
   MintNote(1, <<11, 12>>, UnknownRoot, TRUE),
   MintNote(1, <<11, 12>>, cur, FALSE)}

\* Blocks of at most two notes.
Blocks(s) ==
  {<<>>} \cup {<<a>> : a \in Notes(s)} \cup {<<a, b>> : a, b \in Notes(s)}

\* One proof per input nullifier of every transaction, generated against
\* the set S.
FullProofs(S, txns) ==
  [i \in 1..Len(txns) |->
     [j \in 1..Len(txns[i].nullifiers) |-> Prove(S, txns[i].nullifiers[j])]]

DropLast(seq) == IF seq = <<>> THEN seq ELSE SubSeq(seq, 1, Len(seq) - 1)

ProofModes == {"full", "short_outer", "short_inner", "long_inner", "long_outer", "foreign"}

\* The proof vectors offered with a block, S being the nullifier set of the
\* state: the full ones, or a vector of another shape, or proofs generated
\* against another set.
ProofsFor(mode, S, txns) ==
  LET full == FullProofs(S, txns)
      k == Len(txns)
  IN CASE mode = "full" -> full
       [] mode = "short_outer" -> DropLast(full)
       [] mode = "short_inner" ->
            IF k = 0 THEN full ELSE [full EXCEPT ![k] = DropLast(full[k])]
       [] mode = "long_inner" ->
            IF k = 0 THEN full ELSE [full EXCEPT ![k] = Append(full[k], Prove(S, 0))]
       [] mode = "long_outer" -> Append(full, <<Prove(S, 0)>>)
       [] mode = "foreign" -> FullProofs(S \cup {0}, txns)

\* All input nullifiers of a block, in block order.
RECURSIVE AllNullifiersFrom(_, _)
AllNullifiersFrom(txns, i) ==
  IF i > Len(txns) THEN <<>>
  ELSE txns[i].nullifiers \o AllNullifiersFrom(txns, i + 1)

AllNullifiers(txns) == AllNullifiersFrom(txns, 1)

----------------------------------------------------------------------------
\* The state machine.

Idle == [op |-> "idle"]

Init ==
  /\ state = Genesis
  /\ call = Idle
  /\ ghost = [applied |-> 0, outputs |-> 0, spent |-> <<>>,
              roots |-> <<Genesis.record_merkle_commitment.root_value>>]
  /\ proposal = ElaboratedBlockDefault
  /\ key_set = None

\* A call of validate_and_apply on the state, and its return.
Apply(now, txns, null_pfs) ==
  LET r == validate_and_apply(state, now, txns, null_pfs) IN
  /\ state' = r.state
  /\ call' = [op |-> "validate_and_apply", now |-> now, txns |-> txns,
              null_pfs |-> null_pfs, pre |-> state, result |-> r.result]
  /\ ghost' = IF r.result.ok
              THEN [applied |-> ghost.applied + 1,
                    outputs |-> ghost.outputs + Len(OutputCommitments(txns)),
                    spent |-> ghost.spent \o AllNullifiers(txns),
                    roots |-> Append(ghost.roots,
                                     r.state.record_merkle_commitment.root_value)]
              ELSE ghost
  /\ UNCHANGED <<proposal, key_set>>

ValidateAndApply ==
  /\ call = Idle
  /\ ghost.applied < MaxApplies
  /\ \E txns \in Blocks(state), mode \in ProofModes :
       Apply(state.prev_commit_time + 1, txns,
             ProofsFor(mode, state.nullifiers_root.set_hash, txns))

\* The caller has taken the result.
Return ==
  /\ call # Idle
  /\ call' = Idle
  /\ UNCHANGED <<state, ghost, proposal, key_set>>

Next == ValidateAndApply \/ Return

Spec == Init /\ [][Next]_vars

\* Long chains of applies, with few blocks to choose from: the empty block
\* and a mint that spends a nullifier not spent before (against the current
\* record root, or against a root the validator does not know).
FreshNullifier(s) == Cardinality(s.nullifiers_root.set_hash) + 1

ChainBlocks(s) ==
  LET n == FreshNullifier(s)
      cur == s.record_merkle_commitment.root_value
  IN {<<>>,
      <<MintNote(n, <<2 * n - 1, 2 * n>>, cur, TRUE)>>,
      <<MintNote(n, <<2 * n - 1, 2 * n>>, UnknownRoot, TRUE)>>}

ValidateAndApplyChain ==
  /\ call = Idle
  /\ ghost.applied < MaxChain
  /\ \E txns \in ChainBlocks(state) :
       Apply(state.prev_commit_time + 1, txns,
             FullProofs(state.nullifiers_root.set_hash, txns))

\* A call of validate_block_check on the state, and its return.
Check(now, txns, null_pfs) ==
  /\ call' = [op |-> "validate_block_check", now |-> now, txns |-> txns,
              null_pfs |-> null_pfs, pre |-> state,
              result |-> validate_block_check(state, now, txns, null_pfs)]
  /\ UNCHANGED <<state, ghost, proposal, key_set>>

\* A mint generated against the record root of an earlier (or the current)
\* state of the chain, with a proof that verifies or one that does not, is
\* offered for validation.
ValidateBlockCheckChain ==
  /\ call = Idle
  /\ \E j \in 1..Len(ghost.roots), ok \in BOOLEAN :
       LET n == FreshNullifier(state)
           txns == <<MintNote(n, <<2 * n - 1, 2 * n>>, ghost.roots[j], ok)>>
       IN Check(state.prev_commit_time + 1, txns,
                FullProofs(state.nullifiers_root.set_hash, txns))

NextChain == ValidateAndApplyChain \/ ValidateBlockCheckChain \/ Return

SpecChain == Init /\ [][NextChain]_vars

----------------------------------------------------------------------------
\* impl State for ValidatorState: the hooks the consensus layer calls.

\* Variant: the block is applied to the receiver itself.
append_InPlace(s, block) ==
  LET r == validate_and_apply(s, s.prev_commit_time + 1, block.block, block.proofs)
  IN [self |-> r.state,
      result |-> IF r.result.ok THEN Ok(r.state) ELSE Err(r.result.err)]

\* State::append: the block is applied to a clone of the receiver, at time
\* prev_commit_time + 1.  self is the receiver after the call, result what
\* is returned.
append(s, block) ==
  LET r == validate_and_apply(s, s.prev_commit_time + 1, block.block, block.proofs)
  IN [self |-> s,
      result |-> IF r.result.ok THEN Ok(r.state) ELSE Err(r.result.err)]

\* The consensus layer appends a block to the state; the state it holds
\* next is the one returned, if one is returned.
AppendBlock ==
  /\ call = Idle
  /\ ghost.applied < MaxChain
  /\ \E txns \in ChainBlocks(state) :
       LET block == [block |-> txns,
                     proofs |-> FullProofs(state.nullifiers_root.set_hash, txns)]
           r == append(state, block)
       IN /\ state' = IF r.result.ok THEN r.result.val ELSE r.self
          /\ call' = [op |-> "append", block |-> block, pre |-> state,
                      self |-> r.self, result |-> r.result]
          /\ ghost' = IF r.result.ok
                      THEN [applied |-> ghost.applied + 1,
                            outputs |-> ghost.outputs + Len(OutputCommitments(txns)),
                            spent |-> ghost.spent \o AllNullifiers(txns),
                            roots |-> Append(ghost.roots,
                                       r.result.val.record_merkle_commitment.root_value)]
                      ELSE ghost
          /\ UNCHANGED <<proposal, key_set>>

\* State::validate_block: whether the check passes at time
\* prev_commit_time + 1.
validate_block(s, block) ==
  validate_block_check(s, s.prev_commit_time + 1, block.block, block.proofs).ok

\* The consensus layer asks whether a block of the catalogue is valid on
\* one of the first states.
ValidateBlock ==
  /\ call = Idle
  /\ ghost.applied < MaxChecked
  /\ \E txns \in Blocks(state), mode \in ProofModes :
       LET block == [block |-> txns,
                     proofs |-> ProofsFor(mode, state.nullifiers_root.set_hash, txns)]
       IN call' = [op |-> "validate_block", block |-> block, pre |-> state,
                   result |-> validate_block(state, block)]
  /\ UNCHANGED <<state, ghost, proposal, key_set>>

\* A block of the catalogue is checked against one of the first states.
ValidateBlockCheck ==
  /\ call = Idle
  /\ ghost.applied < MaxChecked
  /\ \E txns \in Blocks(state), mode \in ProofModes :
       Check(state.prev_commit_time + 1, txns,
             ProofsFor(mode, state.nullifiers_root.set_hash, txns))

NextAdapter ==
  AppendBlock \/ ValidateAndApplyChain \/ ValidateBlock \/ ValidateBlockCheck \/ Return

SpecAdapter == Init /\ [][NextAdapter]_vars

----------------------------------------------------------------------------
\* impl BlockContents for ElaboratedBlock: assembly of a block.

\* The loop over the nullifiers of the transaction from the i-th on, nulls
\* being the set collected so far: whether it returns the error.
RECURSIVE ConflictFrom(_, _, _)
ConflictFrom(ns, i, nulls) ==
  IF i > Len(ns) THEN FALSE
  ELSE IF ns[i] \in nulls THEN TRUE
  ELSE ConflictFrom(ns, i + 1, nulls \cup {ns[i]})

\* The nullifiers of the transactions of a block, collected into a set.
BlockNullifiers(txns) ==
  LET all == AllNullifiers(txns) IN {all[i] : i \in 1..Len(all)}

\* Variant: the nullifiers of the transaction are not added to the set.
add_transaction_raw_NoInsert(self, txn) ==
  IF \E i \in 1..Len(txn.txn.nullifiers) :
       txn.txn.nullifiers[i] \in BlockNullifiers(self.block)
  THEN [self |-> self, result |-> Err(ConflictingNullifiers)]
  ELSE [self |-> self,
        result |-> Ok([block |-> Append(self.block, txn.txn),
                       proofs |-> Append(self.proofs, txn.proofs)])]

\* Variant: the transaction is pushed whatever its nullifiers.
add_transaction_raw_NoCheck(self, txn) ==
  [self |-> self,
   result |-> Ok([block |-> Append(self.block, txn.txn),
                  proofs |-> Append(self.proofs, txn.proofs)])]

\* ElaboratedBlock::add_transaction_raw.  self is the receiver after the
\* call, result what is returned.
add_transaction_raw(self, txn) ==
  IF ConflictFrom(txn.txn.nullifiers, 1, BlockNullifiers(self.block))
  THEN [self |-> self, result |-> Err(ConflictingNullifiers)]
  ELSE [self |-> self,
        result |-> Ok([block |-> Append(self.block, txn.txn),
                       proofs |-> Append(self.proofs, txn.proofs)])]

\* State::next_block
next_block(s) == ElaboratedBlockDefault

\* The input nullifier lists of the transactions offered: one or two
\* nullifiers, the same one twice included.
NullifierLists ==
  {<<a>> : a \in 1..MaxNullifier} \cup {<<a, b>> : a, b \in 1..MaxNullifier}

\* The elaborated transactions offered: a transfer per nullifier list, with
\* one proof per input or with no proof at all.
ElaboratedTransactions ==
  LET root == Genesis.record_merkle_commitment.root_value
      note(ns) == TransferNote(ns, [i \in 1..Len(ns) |-> 10 * ns[i]], root, TRUE)
  IN {[txn |-> note(ns), proofs |-> [i \in 1..Len(ns) |-> Prove({}, ns[i])]] :
        ns \in NullifierLists}
     \cup {[txn |-> note(ns), proofs |-> <<>>] : ns \in NullifierLists}

\* A new block is started.
NextBlock ==
  /\ call = Idle
  /\ proposal # next_block(state)
  /\ proposal' = next_block(state)
  /\ call' = [op |-> "next_block"]
  /\ UNCHANGED <<state, ghost, key_set>>

\* A transaction is added to the block under assembly; the block held next
\* is the one returned, if one is returned.
AddTransaction ==
  /\ call = Idle
  /\ \E txn \in ElaboratedTransactions :
       LET r == add_transaction_raw(proposal, txn) IN
       /\ proposal' = IF r.result.ok THEN r.result.val ELSE r.self
       /\ call' = [op |-> "add_transaction_raw", txn |-> txn, pre |-> proposal,
                   self |-> r.self, result |-> r.result]
  /\ UNCHANGED <<state, ghost, key_set>>

NextAssembly == NextBlock \/ AddTransaction \/ Return

SpecBlock == Init /\ [][NextAssembly]_vars

----------------------------------------------------------------------------
\* key_set::KeySet: construction and queries.

Orders == {"OrderByInputs", "OrderByOutputs"}

\* The keys a KeySet is built from, and the sequences of them an iterator
\* yields.
SizedKeys ==
  {VerifyingKey("Transfer", i, o) : i, o \in 1..MaxKeySize}
KeySequences == UNION {[1..n -> SizedKeys] : n \in 0..MaxKeys}

\* KeySet::new is called; the set it returns, if any, is the one held.
NewKeySet ==
  /\ call = Idle
  /\ ~key_set.some
  /\ \E order \in Orders, ks \in KeySequences :
       LET r == KeySetNew(order, ks) IN
       /\ key_set' = IF r.ok THEN Some(r.val) ELSE key_set
       /\ call' = [op |-> "KeySet::new", order |-> order, keys |-> ks, result |-> r]
  /\ UNCHANGED <<state, ghost, proposal>>

\* best_fit_key is called on the set held.
BestFitKey ==
  /\ call = Idle
  /\ key_set.some
  /\ \E i, o \in 1..(MaxKeySize + 1) :
       call' = [op |-> "best_fit_key", num_inputs |-> i, num_outputs |-> o,
                result |-> best_fit_key(key_set.val, i, o)]
  /\ UNCHANGED <<state, ghost, proposal, key_set>>

\* max_size is called on the set held.
MaxSize ==
  /\ call = Idle
  /\ key_set.some
  /\ call' = [op |-> "max_size", result |-> max_size(key_set.val)]
  /\ UNCHANGED <<state, ghost, proposal, key_set>>

NextKeys == NewKeySet \/ BestFitKey \/ MaxSize \/ Return

SpecKeys == Init /\ [][NextKeys]_vars

----------------------------------------------------------------------------
\* validate_and_apply at times of the caller's choice.

\* A block of the reduced family is applied to one of the first states at
\* any time up to MaxNow, with its proofs or with a proof vector too many.
ValidateAndApplyAt ==
  /\ call = Idle
  /\ ghost.applied < MaxChecked
  /\ \E now \in 0..MaxNow, txns \in ChainBlocks(state),
        mode \in {"full", "long_outer"} :
       Apply(now, txns, ProofsFor(mode, state.nullifiers_root.set_hash, txns))

NextTime == ValidateAndApplyAt \/ Return

SpecTime == Init /\ [][NextTime]_vars

----------------------------------------------------------------------------
\* ValidatorState::new on the key sets and record trees a ledger starts from.

\* Verifier key sets: the transfer keys are any non-empty choice among three
\* sizes, under either order.
VerifierKeySets ==
  LET sizes == {VerifyingKey("Transfer", 1, 1), VerifyingKey("Transfer", 1, 2),
                VerifyingKey("Transfer", 2, 2)}
  IN {[mint |-> VerifyingKey("Mint", 1, 2),
       xfr |-> KeySetOf(order, K),
       freeze |-> KeySetOf(order, {VerifyingKey("Freeze", 2, 2)})] :
        order \in Orders, K \in (SUBSET sizes) \ {{}}}

\* Record trees of at most MaxLeaves leaves.
InitialTrees ==
  {[height |-> MERKLE_HEIGHT, leaves |-> ls] :
     ls \in UNION {[1..n -> {to_field_element(1), to_field_element(2)}] :
                    n \in 0..MaxLeaves}}

\* A validator state is constructed; it is the state held from then on.
NewState ==
  /\ call = Idle
  /\ \E verif_crs \in VerifierKeySets, tree \in InitialTrees :
       /\ state' = ValidatorStateNew(verif_crs, tree)
       /\ call' = [op |-> "ValidatorState::new", verif_crs |-> verif_crs,
                   tree |-> tree]
       /\ ghost' = [applied |-> 0, outputs |-> 0, spent |-> <<>>,
                    roots |-> <<TreeCommitment(tree).root_value>>]
  /\ UNCHANGED <<proposal, key_set>>

NextGenesis == NewState \/ Return

SpecGenesis == Init /\ [][NextGenesis]_vars

----------------------------------------------------------------------------
\* ValidationError: Clone, and Serialize / Deserialize with ser_display.

\* The typed errors of the transaction API the model distinguishes, and
\* their Display rendering.
TxnApiErrors == {"FailedSnarkVerification", "InvalidParameter", "InternalError"}
Display(e) ==
  CASE e = "FailedSnarkVerification" -> "Failed Snark Proof Verification"
    [] e = "InvalidParameter" -> "Invalid parameters"
    [] e = "InternalError" -> "Unexpected internal error"

\* Clone for ValidationError: variant by variant.
clone(e) ==
  CASE e.kind = "NullifierAlreadyExists" -> NullifierAlreadyExists(e.nullifier)
    [] e.kind = "BadNullifierProof" -> BadNullifierProof
    [] e.kind = "MissingNullifierProof" -> MissingNullifierProof
    [] e.kind = "ConflictingNullifiers" -> ConflictingNullifiers
    [] e.kind = "Failed" -> Failed
    [] e.kind = "BadMerkleLength" -> BadMerkleLength
    [] e.kind = "BadMerkleLeaf" -> BadMerkleLeaf
    [] e.kind = "BadMerkleRoot" -> BadMerkleRoot
    [] e.kind = "BadMerklePath" -> BadMerklePath
    [] e.kind = "CryptoError" -> Failed
    [] e.kind = "UnsupportedTransferSize" ->
         UnsupportedTransferSize(e.num_inputs, e.num_outputs)
    [] e.kind = "UnsupportedFreezeSize" -> UnsupportedFreezeSize(e.num_inputs)

\* ser_display::serialize: the string written for a Result<T, String>.
ser_display_serialize(v) == IF v.ok THEN Display(v.val) ELSE v.err

\* Variant: the string read is taken for a typed error.
ser_display_deserialize_Typed(string) == Ok(string)

\* ser_display::deserialize: the Result<T, String> read from a string.
ser_display_deserialize(string) == Err(string)

\* The derived Serialize: the variant and its fields in declaration order,
\* the err field of CryptoError through ser_display.
serialize(e) ==
  [variant |-> e.kind,
   fields |-> CASE e.kind = "NullifierAlreadyExists" -> <<e.nullifier>>
                [] e.kind = "CryptoError" -> <<ser_display_serialize(e.err)>>
                [] e.kind = "UnsupportedTransferSize" -> <<e.num_inputs, e.num_outputs>>
                [] e.kind = "UnsupportedFreezeSize" -> <<e.num_inputs>>
                [] OTHER -> <<>>]

\* The derived Deserialize.
deserialize(w) ==
  CASE w.variant = "NullifierAlreadyExists" -> NullifierAlreadyExists(w.fields[1])
    [] w.variant = "CryptoError" -> CryptoError(ser_display_deserialize(w.fields[1]))
    [] w.variant = "UnsupportedTransferSize" ->
         UnsupportedTransferSize(w.fields[1], w.fields[2])
    [] w.variant = "UnsupportedFreezeSize" -> UnsupportedFreezeSize(w.fields[1])
    [] OTHER -> [kind |-> w.variant]

\* The errors offered: every variant, with payloads from small sets; a
\* CryptoError holds a typed error or a string, a rendering or another one.
ValidationErrors ==
  {NullifierAlreadyExists(n) : n \in 0..MaxNullifier}
  \cup {BadNullifierProof, MissingNullifierProof, ConflictingNullifiers, Failed,
        BadMerkleLength, BadMerkleLeaf, BadMerkleRoot, BadMerklePath}
  \cup {CryptoError(Ok(e)) : e \in TxnApiErrors}
  \cup {CryptoError(Err(s)) : s \in {Display(e) : e \in TxnApiErrors}
                                     \cup {"", "FailedSnarkVerification"}}
  \cup {UnsupportedTransferSize(i, o) : i, o \in 0..MaxKeySize}
  \cup {UnsupportedFreezeSize(i) : i \in 0..MaxKeySize}

CloneError ==
  /\ call = Idle
  /\ \E e \in ValidationErrors :
       call' = [op |-> "clone", err |-> e, result |-> clone(e)]
  /\ UNCHANGED <<state, ghost, proposal, key_set>>

SerializeError ==
  /\ call = Idle
  /\ \E e \in ValidationErrors :
       call' = [op |-> "serialize", err |-> e, result |-> serialize(e)]
  /\ UNCHANGED <<state, ghost, proposal, key_set>>

\* An error is serialized and read back.
RoundTripError ==
  /\ call = Idle
  /\ \E e \in ValidationErrors :
       call' = [op |-> "round_trip", err |-> e,
                result |-> deserialize(serialize(e))]
  /\ UNCHANGED <<state, ghost, proposal, key_set>>

NextError == CloneError \/ SerializeError \/ RoundTripError \/ Return

SpecError == Init /\ [][NextError]_vars

----------------------------------------------------------------------------
\* Properties.

Range(seq) == {seq[i] : i \in 1..Len(seq)}

Called == call.op = "validate_and_apply"
CallSucceeded == Called /\ call.result.ok
CallFailed == Called /\ ~call.result.ok

\* The eight fields of the state are those of the state before the call.
SameFields(s, p) ==
  /\ s.prev_commit_time = p.prev_commit_time
  /\ s.prev_state = p.prev_state
  /\ s.verif_crs = p.verif_crs
  /\ s.record_merkle_commitment = p.record_merkle_commitment
  /\ s.record_merkle_frontier = p.record_merkle_frontier
  /\ s.past_record_merkle_roots = p.past_record_merkle_roots
  /\ s.nullifiers_root = p.nullifiers_root
  /\ s.prev_block = p.prev_block

\* What validate_block_check answers on the inputs of the call.
CheckOfCall == validate_block_check(call.pre, call.now, call.txns, call.null_pfs)

C2_CheckFailureLeavesStateUnchanged ==
  (Called /\ ~CheckOfCall.ok) =>
     /\ call.result = CheckOfCall
     /\ CheckOfCall.err.kind \in
          {"NullifierAlreadyExists", "BadNullifierProof", "UnsupportedTransferSize",
           "UnsupportedFreezeSize", "BadMerkleRoot", "CryptoError"}
     /\ state = call.pre

\* The batch verifier rejects a block offered to a state with an applied block.
C2_Witness ==
  /\ Called
  /\ ~CheckOfCall.ok
  /\ CheckOfCall.err.kind = "CryptoError"
  /\ ghost.applied >= 1

\* The input nullifiers of the blocks applied before the call.
SpentBefore ==
  IF CallSucceeded
  THEN SubSeq(ghost.spent, 1, Len(ghost.spent) - Len(AllNullifiers(call.txns)))
  ELSE ghost.spent

(* C3: no nullifier is consumed twice: a block that is applied has no input
   nullifier that is an input nullifier of a block applied before, whatever
   proof vectors come with it. *)
C3_NoNullifierConsumedTwice ==
  CallSucceeded => Range(AllNullifiers(call.txns)) \cap Range(SpentBefore) = {}

\* The proof vectors have the shape of the block's nullifiers.
SameShape(txns, null_pfs) ==
  /\ Len(null_pfs) = Len(txns)
  /\ \A i \in 1..Len(txns) : Len(null_pfs[i]) = Len(txns[i].nullifiers)

(* C4: a block whose proof vectors do not have the shape of its nullifiers is
   rejected with MissingNullifierProof, by validate_block_check and by
   validate_and_apply, and the state is unchanged. *)
C4_ShapeMismatchRejected ==
  (Called /\ ~SameShape(call.txns, call.null_pfs)) =>
     /\ CheckOfCall = Err(MissingNullifierProof)
     /\ call.result = Err(MissingNullifierProof)
     /\ state = call.pre

\* The first nullifier in block order that repeats an earlier one.
HasRepeat(ns) == \E i, j \in 1..Len(ns) : i < j /\ ns[i] = ns[j]
FirstRepeat(ns) ==
  ns[CHOOSE j \in 1..Len(ns) :
       /\ \E i \in 1..(j - 1) : ns[i] = ns[j]
       /\ \A k \in 1..(j - 1) : ~\E i \in 1..(k - 1) : ns[i] = ns[k]]

\* Every input nullifier of the block comes with a proof that checks against
\* root and says the nullifier is not in the set.
AllNonMembership(txns, null_pfs, root) ==
  /\ SameShape(txns, null_pfs)
  /\ \A i \in 1..Len(txns) : \A j \in 1..Len(txns[i].nullifiers) :
       ProofCheck(null_pfs[i][j], txns[i].nullifiers[j], root) = Ok(FALSE)

(* C5: a block in which an input nullifier n occurs twice, every nullifier
   coming with a valid non-membership proof against the current
   nullifiers_root, is rejected by validate_block_check and by
   validate_and_apply with NullifierAlreadyExists{n}, n being the first
   nullifier in block order that repeats, and the state is unchanged. *)
C5_SharedNullifierRejected ==
  (/\ Called
   /\ AllNonMembership(call.txns, call.null_pfs, call.pre.nullifiers_root)
   /\ HasRepeat(AllNullifiers(call.txns))) =>
     /\ CheckOfCall = Err(NullifierAlreadyExists(FirstRepeat(AllNullifiers(call.txns))))
     /\ call.result = CheckOfCall
     /\ state = call.pre

\* Two transactions of the block share a nullifier, with full proofs.
C5_Witness ==
  /\ Called
  /\ Len(call.txns) = 2
  /\ Range(call.txns[1].nullifiers) \cap Range(call.txns[2].nullifiers) # {}
  /\ AllNonMembership(call.txns, call.null_pfs, call.pre.nullifiers_root)
  /\ CallFailed
  /\ call.result.err.kind = "NullifierAlreadyExists"

(* C6: a successful validate_and_apply returns one uid per output commitment
   of the block, the uids being pre_num_leaves, pre_num_leaves + 1, ... in
   order, and the leaf count after the call is the uid after the last one, so
   that the next apply continues where this one ended. *)
C6_UidsContiguous ==
  CallSucceeded =>
    LET pre_num_leaves == call.pre.record_merkle_commitment.num_leaves
        k == Len(OutputCommitments(call.txns))
    IN /\ call.result.val = [u \in 1..k |-> pre_num_leaves + u - 1]
       /\ state.record_merkle_commitment.num_leaves = pre_num_leaves + k

\* Three or more uids are assigned on a tree that already has leaves.
C6_Witness ==
  /\ CallSucceeded
  /\ call.pre.record_merkle_commitment.num_leaves > 0
  /\ Len(call.result.val) >= 3

(* C7: num_leaves is the number of output commitments of all blocks applied
   since genesis; a successful apply raises it by the number of output
   commitments of the block, a failed one does not change it. *)
C7_NumLeavesCountsOutputs ==
  /\ state.record_merkle_commitment.num_leaves = ghost.outputs
  /\ CallSucceeded =>
       state.record_merkle_commitment.num_leaves =
         call.pre.record_merkle_commitment.num_leaves + Len(OutputCommitments(call.txns))
  /\ CallFailed =>
       state.record_merkle_commitment.num_leaves =
         call.pre.record_merkle_commitment.num_leaves

\* Two blocks with outputs have been applied.
C7_Witness ==
  /\ CallSucceeded
  /\ call.pre.record_merkle_commitment.num_leaves > 0
  /\ OutputCommitments(call.txns) # <<>>
  /\ ghost.outputs >= 4

(* C8: past_record_merkle_roots never holds more than
   RECORD_ROOT_HISTORY_SIZE = 10 entries: none at genesis, one more per
   successful apply up to 10, and 10 from then on. *)
C8_HistoryBounded ==
  /\ Len(state.past_record_merkle_roots) <= RECORD_ROOT_HISTORY_SIZE
  /\ Len(state.past_record_merkle_roots) = Min(ghost.applied, RECORD_ROOT_HISTORY_SIZE)
  /\ CallFailed => Len(state.past_record_merkle_roots) = Len(call.pre.past_record_merkle_roots)

\* An apply on a state whose history is already full.
C8_Witness ==
  /\ CallSucceeded
  /\ Len(call.pre.past_record_merkle_roots) = RECORD_ROOT_HISTORY_SIZE
  /\ ghost.applied > RECORD_ROOT_HISTORY_SIZE + 1

(* C9: prev_state is None exactly when no block has been applied since
   genesis, and after a validate_and_apply that changed the state it is the
   commitment of the state as it was before the call. *)
C9_PrevStateChain ==
  /\ (state.prev_state = None) <=> (ghost.applied = 0)
  /\ (Called /\ state # call.pre) => state.prev_state = Some(commit(call.pre))

\* The second link of the chain.
C9_Witness ==
  /\ Called
  /\ state # call.pre
  /\ call.pre.prev_state # None

\* A validate_block_check call has returned.
Checked == call.op = "validate_block_check"

\* The record root of the state after j applies, and whether each of the
\* last m applies changed the record root.
StateRoot(j) == ghost.roots[j + 1]
RootsChanged(m) ==
  \A i \in (ghost.applied - m)..(ghost.applied - 1) : StateRoot(i) # StateRoot(i + 1)

\* The witness root of the single note offered to the check.
OfferedRoot == call.txns[1].merkle_root

\* The roots of the current state and of the RECORD_ROOT_HISTORY_SIZE states
\* before it.
WindowRoots ==
  {StateRoot(j) : j \in {i \in 0..ghost.applied :
                            i >= ghost.applied - RECORD_ROOT_HISTORY_SIZE}}

(* C11, as stated: after 10 applies that each changed the record root, a
   note whose witness root is the root of the state preceding those 10
   applies is rejected with BadMerkleRoot. *)
C11_TenthPreviousRootRejected ==
  (/\ Checked
   /\ ghost.applied >= RECORD_ROOT_HISTORY_SIZE
   /\ RootsChanged(RECORD_ROOT_HISTORY_SIZE)
   /\ OfferedRoot = StateRoot(ghost.applied - RECORD_ROOT_HISTORY_SIZE))
  => call.result = Err(BadMerkleRoot)

(* C11, amended: a note whose witness root is the root of the current state
   or of one of the 10 states before it passes the root eligibility check;
   a note whose witness root is none of these 11 roots, in particular the
   root of the state preceding 11 applies that each changed the root, is
   rejected with BadMerkleRoot. *)
C11_RootWindow ==
  Checked =>
    /\ OfferedRoot \in WindowRoots
         => /\ call.result # Err(BadMerkleRoot)
            /\ call.txns[1].proof_ok => call.result.ok
    /\ OfferedRoot \notin WindowRoots => call.result = Err(BadMerkleRoot)
    /\ (/\ ghost.applied >= RECORD_ROOT_HISTORY_SIZE + 1
        /\ RootsChanged(RECORD_ROOT_HISTORY_SIZE + 1)
        /\ OfferedRoot = StateRoot(ghost.applied - (RECORD_ROOT_HISTORY_SIZE + 1)))
       => call.result = Err(BadMerkleRoot)

\* The root of the state preceding 11 root-changing applies is rejected.
C11_Witness ==
  /\ Checked
  /\ ghost.applied >= RECORD_ROOT_HISTORY_SIZE + 1
  /\ RootsChanged(RECORD_ROOT_HISTORY_SIZE + 1)
  /\ OfferedRoot = StateRoot(ghost.applied - (RECORD_ROOT_HISTORY_SIZE + 1))
  /\ call.result = Err(BadMerkleRoot)

\* The least element of a non-empty set of indices.
First(S) == CHOOSE i \in S : \A j \in S : i <= j

\* The flattened (proof, nullifier) pairs of the call, and the pairs that
\* offend: a nullifier met earlier in the block, or a proof that is not a
\* valid non-membership proof against the root of the state.
PairsOfCall == NullifierPairs(call.null_pfs, call.txns)
SeenEarlier(i) == \E j \in 1..(i - 1) : PairsOfCall[j].n = PairsOfCall[i].n
PairCheck(i) ==
  ProofCheck(PairsOfCall[i].pf, PairsOfCall[i].n, call.pre.nullifiers_root)
OffendingPairs ==
  {i \in 1..Len(PairsOfCall) : SeenEarlier(i) \/ PairCheck(i) # Ok(FALSE)}
PairError(i) ==
  IF SeenEarlier(i) \/ PairCheck(i) = Ok(TRUE)
  THEN NullifierAlreadyExists(PairsOfCall[i].n)
  ELSE BadNullifierProof

\* The transactions of the call without a verifying key, with a witness root
\* that is not eligible, with a proof that does not verify.
KeyOfTxn(i) == SelectKey(call.pre.verif_crs, call.txns[i])
WithoutKey == {i \in 1..Len(call.txns) : ~KeyOfTxn(i).ok}
EligibleRoots(s) ==
  {s.record_merkle_commitment.root_value} \cup Range(s.past_record_merkle_roots)
WithBadRoot ==
  {i \in 1..Len(call.txns) : call.txns[i].merkle_root \notin EligibleRoots(call.pre)}
WithBadProof == {i \in 1..Len(call.txns) : ~call.txns[i].proof_ok}

(* C12: the error reported is the first one in this order: the nullifier
   error of the first offending (proof, nullifier) pair in flattened order;
   else the key error of the first transaction without a key; else
   BadMerkleRoot; else CryptoError.  With no fault at all the call succeeds. *)
C12_FirstErrorInOrder ==
  Called =>
    /\ OffendingPairs # {} => call.result = Err(PairError(First(OffendingPairs)))
    /\ (OffendingPairs = {} /\ WithoutKey # {})
         => call.result = Err(KeyOfTxn(First(WithoutKey)).err)
    /\ (OffendingPairs = {} /\ WithoutKey = {} /\ WithBadRoot # {})
         => call.result = Err(BadMerkleRoot)
    /\ (OffendingPairs = {} /\ WithoutKey = {} /\ WithBadRoot = {} /\ WithBadProof # {})
         => ~call.result.ok /\ call.result.err.kind = "CryptoError"
    /\ (OffendingPairs = {} /\ WithoutKey = {} /\ WithBadRoot = {} /\ WithBadProof = {})
         => call.result.ok

\* A block with a transaction without a key after one with an ineligible
\* root: the key error is the one reported.
C12_Witness ==
  /\ Called
  /\ OffendingPairs = {}
  /\ Len(call.txns) = 2
  /\ WithBadRoot = {1}
  /\ WithoutKey = {2}
  /\ ~call.result.ok
  /\ call.result.err.kind = "UnsupportedFreezeSize"

\* Whether the key set holds a key of exactly the size of transaction i.
ExactKeyIn(ks, i) ==
  \E sk \in DOMAIN ks.keys :
    /\ ks.keys[sk].num_input = Len(call.txns[i].nullifiers)
    /\ ks.keys[sk].num_output = Len(call.txns[i].outputs)

\* Whether the key set holds a key larger than transaction i in both
\* dimensions.
LargerKeyIn(ks, i) ==
  \E sk \in DOMAIN ks.keys :
    /\ ks.keys[sk].num_input >= Len(call.txns[i].nullifiers)
    /\ ks.keys[sk].num_output >= Len(call.txns[i].outputs)

\* The transfers and freezes of the call without a key of their exact size.
WithoutExactKey ==
  {i \in 1..Len(call.txns) :
     \/ call.txns[i].kind = "Transfer" /\ ~ExactKeyIn(call.pre.verif_crs.xfr, i)
     \/ call.txns[i].kind = "Freeze" /\ ~ExactKeyIn(call.pre.verif_crs.freeze, i)}

\* The error C13 names for transaction i.
UnsupportedSize(i) ==
  IF call.txns[i].kind = "Transfer"
  THEN UnsupportedTransferSize(Len(call.txns[i].nullifiers), Len(call.txns[i].outputs))
  ELSE UnsupportedFreezeSize(Len(call.txns[i].nullifiers))

(* C13: when the nullifier stage passes and some transfer or freeze has no
   key of exactly its arity, the call fails with the Unsupported...Size error
   of the first such transaction, whether or not a larger key exists, and
   the state is unchanged; a mint always gets verif_crs.mint. *)
C13_ExactArityKeys ==
  Called =>
    /\ (OffendingPairs = {} /\ WithoutExactKey # {})
         => /\ call.result = Err(UnsupportedSize(First(WithoutExactKey)))
            /\ state = call.pre
    /\ \A i \in 1..Len(call.txns) :
         call.txns[i].kind = "Mint" => KeyOfTxn(i) = Ok(call.pre.verif_crs.mint)

\* A transfer of a size without a key, a larger key being in the set.
C13_Witness ==
  /\ Called
  /\ OffendingPairs = {}
  /\ WithoutExactKey # {}
  /\ call.txns[First(WithoutExactKey)].kind = "Transfer"
  /\ LargerKeyIn(call.pre.verif_crs.xfr, First(WithoutExactKey))
  /\ call.result = Err(UnsupportedTransferSize(1, 2))

\* An append call has returned.
Appended == call.op = "append"

(* C14: append leaves the state it is called on as it was; a state it
   returns has prev_commit_time one more than the receiver's; along a chain
   of appends from genesis, prev_commit_time is the number of blocks
   appended. *)
C14_AppendOnClone ==
  /\ Appended => call.self = call.pre
  /\ (Appended /\ call.result.ok)
       => /\ call.result.val.prev_commit_time = call.pre.prev_commit_time + 1
          /\ call.result.val.prev_commit_time = ghost.applied
  /\ state.prev_commit_time = ghost.applied

\* The third block of a chain has been appended.
C14_Witness ==
  /\ Appended
  /\ call.result.ok
  /\ call.result.val # call.pre
  /\ call.self = call.pre
  /\ ghost.applied = 3

(* C15: validate_block_check leaves every field of the state as it was, and
   when it succeeds it returns the block and the proof vectors it was given,
   unmodified and in the same order. *)
C15_CheckReadOnly ==
  Checked =>
    /\ SameFields(state, call.pre)
    /\ call.result.ok
         => /\ call.result.val.txns = call.txns
            /\ call.result.val.null_pfs = call.null_pfs

\* A block of two notes passes the check with one proof vector too many.
C15_Witness ==
  /\ Checked
  /\ call.result.ok
  /\ Len(call.txns) = 2
  /\ Len(call.null_pfs) = 3
  /\ call.result.val.null_pfs = call.null_pfs

\* An add_transaction_raw call has returned.
Added == call.op = "add_transaction_raw"

\* Some nullifier of the transaction of the call is already in the block it
\* is added to, or occurs twice in the transaction.
ConflictOfCall ==
  \/ \E i \in 1..Len(call.txn.txn.nullifiers) :
       call.txn.txn.nullifiers[i] \in Range(AllNullifiers(call.pre.block))
  \/ HasRepeat(call.txn.txn.nullifiers)

(* C16: add_transaction_raw returns ConflictingNullifiers exactly when a
   nullifier of the transaction already occurs in the block or occurs twice
   in the transaction; otherwise it returns the block with the note appended
   to the notes and the proofs appended to the proof vectors, the earlier
   entries as they were.  The receiver is not modified. *)
C16_AddTransactionRaw ==
  Added =>
    /\ ConflictOfCall <=> call.result = Err(ConflictingNullifiers)
    /\ ~ConflictOfCall
         => /\ call.result.ok
            /\ Len(call.result.val.block) = Len(call.pre.block) + 1
            /\ Len(call.result.val.proofs) = Len(call.pre.proofs) + 1
            /\ SubSeq(call.result.val.block, 1, Len(call.pre.block)) = call.pre.block
            /\ SubSeq(call.result.val.proofs, 1, Len(call.pre.proofs)) = call.pre.proofs
            /\ call.result.val.block[Len(call.pre.block) + 1] = call.txn.txn
            /\ call.result.val.proofs[Len(call.pre.proofs) + 1] = call.txn.proofs
    /\ call.self = call.pre

\* A transaction with the same nullifier twice, none of them in the
\* non-empty block, is refused.
C16_Witness ==
  /\ Added
  /\ call.pre.block # <<>>
  /\ HasRepeat(call.txn.txn.nullifiers)
  /\ \A i \in 1..Len(call.txn.txn.nullifiers) :
       call.txn.txn.nullifiers[i] \notin Range(AllNullifiers(call.pre.block))
  /\ call.result = Err(ConflictingNullifiers)
  /\ call.self = call.pre

(* C17: in every block assembled from the empty block by successful
   add_transaction_raw calls no input nullifier occurs more than once, and
   there are as many proof vectors as transactions. *)
C17_AssembledBlockWellFormed ==
  /\ ~HasRepeat(AllNullifiers(proposal.block))
  /\ Len(proposal.proofs) = Len(proposal.block)

\* A block of two transactions, one of them with two inputs.
C17_Witness ==
  /\ Len(proposal.block) = 2
  /\ Len(AllNullifiers(proposal.block)) = 3
  /\ Len(proposal.proofs) = 2

\* A best_fit_key call has returned.
Fitted == call.op = "best_fit_key"

\* The keys held by a key set.
KeysOf(ks) == {ks.keys[sk] : sk \in DOMAIN ks.keys}

\* Key k is at least the size (i, o) under the order: by inputs then
\* outputs, or by outputs then inputs.
AtLeast(order, k, i, o) ==
  IF order = "OrderByInputs"
  THEN k.num_input > i \/ (k.num_input = i /\ k.num_output >= o)
  ELSE k.num_output > o \/ (k.num_output = o /\ k.num_input >= i)

\* The keys of the set held that are at least the size requested.
Candidates ==
  {k \in KeysOf(key_set.val) :
     AtLeast(key_set.val.order, k, call.num_inputs, call.num_outputs)}

(* C18: best_fit_key returns the key of least size-key among those whose
   size-key is at least the requested one under the order of the set; when
   there is none it returns as error the size of the key of greatest
   size-key, which is max_size(). *)
C18_BestFitIsLeastUnderOrder ==
  Fitted =>
    /\ Candidates # {}
         => /\ call.result.ok
            /\ call.result.val.key \in Candidates
            /\ \A k \in Candidates :
                 AtLeast(key_set.val.order, k, call.result.val.key.num_input,
                         call.result.val.key.num_output)
            /\ call.result.val.num_inputs = call.result.val.key.num_input
            /\ call.result.val.num_outputs = call.result.val.key.num_output
    /\ Candidates = {}
         => /\ ~call.result.ok
            /\ call.result.err = max_size(key_set.val)
            /\ \E k \in KeysOf(key_set.val) :
                 /\ call.result.err = Size(k.num_input, k.num_output)
                 /\ \A x \in KeysOf(key_set.val) :
                      AtLeast(key_set.val.order, k, x.num_input, x.num_output)

\* Under OrderByOutputs, a request without an exact key and with more than
\* one candidate gets a key.
C18_Witness ==
  /\ Fitted
  /\ key_set.val.order = "OrderByOutputs"
  /\ Cardinality(Candidates) >= 2
  /\ call.result.ok
  /\ call.result.val.key # VerifyingKey("Transfer", call.num_inputs, call.num_outputs)

(* C19: a key returned by best_fit_key has at least the requested number of
   inputs and at least the requested number of outputs. *)
C19_BestFitLargeEnough ==
  (Fitted /\ call.result.ok)
    => /\ call.result.val.num_inputs >= call.num_inputs
       /\ call.result.val.num_outputs >= call.num_outputs

\* A KeySet::new call has returned.
Built == call.op = "KeySet::new"

\* The positions of the keys that have the size of an earlier key.
Repeats(ks) ==
  {j \in 1..Len(ks) :
     \E i \in 1..(j - 1) : /\ ks[i].num_input = ks[j].num_input
                           /\ ks[i].num_output = ks[j].num_output}

(* C20: KeySet::new returns NoKeys exactly when the iterator is empty,
   DuplicateKeys with the size of the first repeated key exactly when two
   keys have the same size, and otherwise a set holding exactly the keys
   given.  A set built by new is not empty, and max_size() on it does not
   panic. *)
C20_KeySetNew ==
  /\ Built =>
       /\ call.keys = <<>> <=> call.result = Err(NoKeys)
       /\ Repeats(call.keys) # {}
            <=> (~call.result.ok /\ call.result.err.kind = "DuplicateKeys")
       /\ Repeats(call.keys) # {}
            => LET k == call.keys[First(Repeats(call.keys))] IN
               call.result = Err(DuplicateKeys(k.num_input, k.num_output))
       /\ (call.keys # <<>> /\ Repeats(call.keys) = {})
            => /\ call.result.ok
               /\ call.result.val.order = call.order
               /\ KeysOf(call.result.val) = Range(call.keys)
               /\ Cardinality(DOMAIN call.result.val.keys) = Len(call.keys)
               /\ key_set = Some(call.result.val)
  /\ key_set.some
       => /\ KeysOf(key_set.val) # {}
          /\ max_size(key_set.val) # Panic
  /\ call.op = "max_size" => call.result # Panic

\* The third key has the size of the first: DuplicateKeys with that size.
C20_Witness ==
  /\ Built
  /\ Len(call.keys) = 3
  /\ Repeats(call.keys) = {3}
  /\ call.keys[1] = call.keys[3]
  /\ call.result = Err(DuplicateKeys(call.keys[3].num_input, call.keys[3].num_output))

\* A ValidatorState::new call has returned.
Constructed == call.op = "ValidatorState::new"

(* C21: the state ValidatorState::new yields has prev_commit_time 0,
   prev_state None, an empty history of roots, the root of the empty
   nullifier set, the commitment of the empty block as prev_block, and the
   commitment and frontier of the tree it was given. *)
C21_GenesisFields ==
  Constructed =>
    /\ state.prev_commit_time = 0
    /\ state.prev_state = None
    /\ state.past_record_merkle_roots = <<>>
    /\ state.nullifiers_root = SetHash({})
    /\ state.prev_block = BlockCommit(<<>>)
    /\ state.record_merkle_commitment = TreeCommitment(call.tree)
    /\ state.record_merkle_commitment.num_leaves = Len(call.tree.leaves)
    /\ state.record_merkle_frontier = TreeFrontier(call.tree)
    /\ state.verif_crs = call.verif_crs

\* A state constructed from a tree that already has leaves.
C21_Witness ==
  /\ Constructed
  /\ call.tree.leaves # <<>>
  /\ state.past_record_merkle_roots = <<>>
  /\ state.record_merkle_commitment.num_leaves = Len(call.tree.leaves)

\* A validate_block call has returned.
ValidatedBlock == call.op = "validate_block"

(* C22: the verifier key set of the state is the one given at genesis,
   whatever calls of validate_block_check, validate_and_apply,
   validate_block and append have been made, and whether they succeeded or
   failed; the state a call was made on, the state it leaves and the state
   it returns have the same verifier key set. *)
C22_VerifCrsImmutable ==
  /\ state.verif_crs = GenesisCRS
  /\ (Called \/ Checked \/ ValidatedBlock \/ Appended)
       => call.pre.verif_crs = state.verif_crs
  /\ Appended => call.self.verif_crs = call.pre.verif_crs
  /\ (Appended /\ call.result.ok)
       => call.result.val.verif_crs = call.pre.verif_crs

\* A state three blocks after genesis, reached by an append.
C22_Witness ==
  /\ Appended
  /\ call.result.ok
  /\ ghost.applied = 3
  /\ call.block.block # <<>>
  /\ call.result.val.verif_crs = GenesisCRS

(* C28: validate_block returns true on a state and a block exactly when
   append returns Ok on them; a block validate_block accepts does not make
   append fail with BadNullifierProof or BadMerklePath. *)
C28_HooksAgree ==
  /\ ValidatedBlock
       => LET r == append(call.pre, call.block).result IN
          /\ call.result <=> r.ok
          /\ call.result => (r.ok \/ r.err \notin {BadNullifierProof, BadMerklePath})
  /\ Appended => (call.result.ok <=> validate_block(call.pre, call.block))

\* A block with proofs of another shape than the block is accepted by
\* validate_block.
C28_Witness ==
  /\ ValidatedBlock
  /\ call.result
  /\ Len(call.block.block) = 2
  /\ ~SameShape(call.block.block, call.block.proofs)
  /\ call.pre.prev_state # None

(* C23: a clone of a ValidationError is the same variant with the same
   payload, except that a CryptoError clones to Failed; a CryptoError
   serialized and read back is a CryptoError holding the string form, the
   Display rendering of the typed error or the string it held, never the
   typed form, and a second round trip leaves it as it is. *)
C23_CloneAndRoundTrip ==
  /\ call.op = "clone"
       => /\ call.err.kind # "CryptoError" => call.result = call.err
          /\ call.err.kind = "CryptoError" => call.result = Failed
  /\ (call.op = "round_trip" /\ call.err.kind = "CryptoError")
       => /\ call.result.kind = "CryptoError"
          /\ ~call.result.err.ok
          /\ call.err.err.ok => call.result.err.err = Display(call.err.err.val)
          /\ ~call.err.err.ok => call.result.err.err = call.err.err.err
          /\ deserialize(serialize(call.result)) = call.result

\* A CryptoError holding a typed error comes back holding its rendering.
C23_Witness ==
  /\ call.op = "round_trip"
  /\ call.err = CryptoError(Ok("FailedSnarkVerification"))
  /\ call.result = CryptoError(Err("Failed Snark Proof Verification"))

(* C24: for a non-empty block that has passed the nullifier and the key
   stage, the root of a note is accepted exactly when it is the current
   record root or an entry of past_record_merkle_roots; the block fails with
   BadMerkleRoot exactly when some note's root is neither, and then the
   proofs are not looked at: the error is BadMerkleRoot also when a proof
   would not verify. *)
C24_RootEligibility ==
  ((Checked \/ Called) /\ call.txns # <<>> /\ OffendingPairs = {} /\ WithoutKey = {})
    => /\ \A i \in 1..Len(call.txns) :
            MerkleRootFor(call.pre, call.txns[i]).ok
              <=> \/ call.txns[i].merkle_root
                       = call.pre.record_merkle_commitment.root_value
                  \/ \E k \in 1..Len(call.pre.past_record_merkle_roots) :
                       call.txns[i].merkle_root = call.pre.past_record_merkle_roots[k]
       /\ WithBadRoot # {} <=> call.result = Err(BadMerkleRoot)
       /\ (WithBadRoot = {} /\ WithBadProof # {})
            => (~call.result.ok /\ call.result.err.kind = "CryptoError")

\* A note with the oldest root of a full history is accepted; its proof is
\* then found not to verify.
C24_Witness ==
  /\ Checked
  /\ Len(call.pre.past_record_merkle_roots) = RECORD_ROOT_HISTORY_SIZE
  /\ OfferedRoot = call.pre.past_record_merkle_roots[RECORD_ROOT_HISTORY_SIZE]
  /\ OfferedRoot # call.pre.record_merkle_commitment.root_value
  /\ ~call.txns[1].proof_ok
  /\ ~call.result.ok
  /\ call.result.err.kind = "CryptoError"

\* A note with a root that is no longer eligible and a proof that would not
\* verify is rejected for its root.
C24_RejectedBeforeVerification ==
  /\ Checked
  /\ WithBadRoot = {1}
  /\ WithBadProof = {1}
  /\ call.result = Err(BadMerkleRoot)

(* C25: after a successful validate_and_apply, past_record_merkle_roots is
   the first 10 elements of the record root before the call followed by the
   history before the call: the root is at the front, the entries kept are
   in their order, and an entry is dropped, the last one, only when the
   history already held 10. *)
C25_HistoryPush ==
  CallSucceeded =>
    LET old == call.pre.past_record_merkle_roots
        all == <<call.pre.record_merkle_commitment.root_value>> \o old
        new == state.past_record_merkle_roots
    IN /\ new = SubSeq(all, 1, Min(Len(all), RECORD_ROOT_HISTORY_SIZE))
       /\ new[1] = call.pre.record_merkle_commitment.root_value
       /\ \A k \in 2..Len(new) : new[k] = old[k - 1]
       /\ Len(old) < RECORD_ROOT_HISTORY_SIZE => Len(new) = Len(old) + 1
       /\ Len(old) = RECORD_ROOT_HISTORY_SIZE => Len(new) = RECORD_ROOT_HISTORY_SIZE

\* An apply on a full history of distinct roots: the oldest one is gone.
C25_Witness ==
  /\ CallSucceeded
  /\ Len(call.pre.past_record_merkle_roots) = RECORD_ROOT_HISTORY_SIZE
  /\ call.pre.past_record_merkle_roots[RECORD_ROOT_HISTORY_SIZE]
       \notin Range(state.past_record_merkle_roots)
  /\ state.past_record_merkle_roots[1] # state.past_record_merkle_roots[2]
  /\ state.past_record_merkle_roots[2] = call.pre.past_record_merkle_roots[1]

(* C29: the empty block next_block() returns is accepted in every state;
   applying it returns no uid and leaves the record commitment (number of
   leaves and root), the frontier and nullifiers_root as they were, while
   prev_commit_time becomes the time of the call, prev_state the commitment
   of the state before the call, and the record root is pushed onto the
   history: the commitment of the state changes. *)
C29_EmptyBlockApplied ==
  (/\ Called
   /\ call.txns = next_block(call.pre).block
   /\ call.null_pfs = next_block(call.pre).proofs)
  => /\ call.result = Ok(<<>>)
     /\ validate_block_check(call.pre, call.now, call.txns, call.null_pfs).ok
     /\ state.record_merkle_commitment = call.pre.record_merkle_commitment
     /\ state.record_merkle_frontier = call.pre.record_merkle_frontier
     /\ state.nullifiers_root = call.pre.nullifiers_root
     /\ state.prev_commit_time = call.now
     /\ state.prev_commit_time = call.pre.prev_commit_time + 1
     /\ state.prev_state = Some(commit(call.pre))
     /\ state.prev_block = BlockCommit(<<>>)
     /\ state.past_record_merkle_roots[1] = call.pre.record_merkle_commitment.root_value
     /\ state.past_record_merkle_roots[1] = state.record_merkle_commitment.root_value
     /\ commit(state) # commit(call.pre)

\* The empty block is applied on a state that has leaves, spent nullifiers
\* and a full history.
C29_Witness ==
  /\ Called
  /\ call.txns = <<>>
  /\ call.null_pfs = <<>>
  /\ call.result = Ok(<<>>)
  /\ call.pre.record_merkle_commitment.num_leaves > 0
  /\ call.pre.nullifiers_root # SetHash({})
  /\ Len(call.pre.past_record_merkle_roots) = RECORD_ROOT_HISTORY_SIZE
  /\ commit(state) # commit(call.pre)

(* C26: after a successful validate_and_apply(now, block, proofs),
   prev_commit_time is now and prev_block is the commitment of the block,
   which does not depend on the proofs. *)
C26_TimeAndBlockRecorded ==
  CallSucceeded =>
    /\ state.prev_commit_time = call.now
    /\ state.prev_block = BlockCommit(call.txns)

\* A block applied at a time before the commit time of the state, with one
\* proof vector more than transactions.
C26_Witness ==
  /\ CallSucceeded
  /\ call.now < call.pre.prev_commit_time
  /\ call.txns # <<>>
  /\ Len(call.null_pfs) > Len(call.txns)
  /\ state.prev_commit_time = call.now

\* The nullifier set a nullifiers_root commits to.
NullifierSet(s) == s.nullifiers_root.set_hash

(* C27: after a successful validate_and_apply the nullifier set is the set
   before the call together with all input nullifiers of all transactions
   of the block, and no call removes a nullifier from the set. *)
C27_NullifierSetGrows ==
  /\ CallSucceeded
       => NullifierSet(state)
            = NullifierSet(call.pre) \cup Range(AllNullifiers(call.txns))
  /\ Called => NullifierSet(call.pre) \subseteq NullifierSet(state)

\* The same, for the blocks whose proof vectors have the shape of the
\* block's nullifiers.
C27_NullifierSetGrowsWithAllProofs ==
  /\ (CallSucceeded /\ SameShape(call.txns, call.null_pfs))
       => NullifierSet(state)
            = NullifierSet(call.pre) \cup Range(AllNullifiers(call.txns))
  /\ CallSucceeded
       => /\ NullifierSet(state) \subseteq
               NullifierSet(call.pre) \cup Range(AllNullifiers(call.txns))
          /\ NullifierSet(state) =
               NullifierSet(call.pre)
                 \cup {p.n : p \in Range(CollectNullifiers(call.txns, call.null_pfs))}
  /\ Called => NullifierSet(call.pre) \subseteq NullifierSet(state)

(* C30: adding one transaction t with pairwise distinct nullifiers to the
   empty block succeeds and yields the block [t.txn] with the proofs
   [t.proofs], whose block commitment is that of the block of t alone; the
   commitment of a block depends on the order in which its transactions
   were added. *)
C30_AssemblyRoundTrip ==
  /\ (Added /\ call.pre = next_block(state) /\ ~HasRepeat(call.txn.txn.nullifiers))
       => /\ call.result.ok
          /\ call.result.val.block = <<call.txn.txn>>
          /\ call.result.val.proofs = <<call.txn.proofs>>
          /\ BlockCommit(call.result.val.block) = BlockCommit(<<call.txn.txn>>)
  /\ (Added /\ call.result.ok /\ call.pre.block # <<>>)
       => BlockCommit(call.result.val.block)
            # BlockCommit(<<call.txn.txn>> \o call.pre.block)

\* A second transaction has been added: the commitment is not that of the
\* two transactions in the other order.
C30_Witness ==
  /\ Added
  /\ call.result.ok
  /\ Len(call.pre.block) = 1
  /\ call.result.val.block = <<call.pre.block[1], call.txn.txn>>
  /\ BlockCommit(call.result.val.block)
       # BlockCommit(<<call.txn.txn, call.pre.block[1]>>)

====
